---- MODULE Spec2Model ----
(***************************************************************************)
(* Model of include/kfr/dft/fft.hpp: dft_plan::execute_dft (the buffer      *)
(* routing and the iterative counter-stack loop over recursion stages) and  *)
(* the spectral helpers fft_multiply / fft_multiply_accumulate.             *)
(*                                                                          *)
(* A plan is a list of stages.  Two calls of execute run on the same plan,  *)
(* each with its own out / in / temp buffers: call 1 then call 2 (Spec), or *)
(* interleaved step by step (SpecConc); SpecMul applies a spectral helper.  *)
(* SpecOne runs one call alone, SpecReal the overloads of                   *)
(* dft_plan_real::execute, SpecCarve the carving of the scratch buffer out  *)
(* of temp.  A stage kernel is a black box of                               *)
(* the source (do_execute is pure virtual): an invocation is modelled as a  *)
(* deterministic function of the stage, the direction, the pointer offset   *)
(* and the contents of the buffer it reads, written to the buffer it is     *)
(* given as output.                                                         *)
(***************************************************************************)
EXTENDS Integers, Sequences, FiniteSets, TLC

VARIABLES plan, sched, call, stack, sp, mul, real, carve

vars == <<plan, sched, call, stack, sp, mul, real, carve>>

-----------------------------------------------------------------------------
(* Bounds of the model                                                      *)

MaxStages == 3

MaxRepeats == 2

MaxOffset == 1

MaxBins == 2

MaxVal == 1

MaxSize == 9

MaxStageTemp == 3

(* Program constants                                                        *)

\* size_t stack[32]
StackSize == 32

\* the largest size_t, the value 0 - 1 wraps to (TLC's integers are 32 bits
\* wide, so 2^64 - 1 is represented by the largest integer TLC has)
SizeMax == 2147483647

Calls == 1..2

-----------------------------------------------------------------------------
(* dft_stage: the fields execute_dft reads                                  *)

\* dft_stage's member initialisers: recursion = false, can_inplace = true,
\* to_scratch = false, repeats = 1, out_offset = 0
DefaultStage ==
    [recursion |-> FALSE, can_inplace |-> TRUE, to_scratch |-> FALSE,
     repeats |-> 1, out_offset |-> 0]

\* stages that differ in the routing flags; a recursion stage repeats
\* MaxRepeats times with a stride of MaxOffset
RoutingStages ==
    { [recursion |-> r, can_inplace |-> ci, to_scratch |-> ts,
       repeats |-> IF r THEN MaxRepeats ELSE 1,
       out_offset |-> IF r THEN MaxOffset ELSE 0] :
        r \in BOOLEAN, ci \in BOOLEAN, ts \in BOOLEAN }

\* stages that differ in the recursion fields (repeats drawn from reps) and
\* keep the default routing flags; execute_dft reads repeats and out_offset
\* of recursion stages only
RecursionStages(reps) ==
    { DefaultStage } \cup
    { [DefaultStage EXCEPT !.recursion = TRUE, !.repeats = n, !.out_offset = o] :
        n \in reps, o \in 0..MaxOffset }

RECURSIVE StageLists(_, _)
StageLists(n, S) ==
    IF n = 0 THEN { <<>> }
    ELSE { Append(p, s) : p \in StageLists(n - 1, S), s \in S }

\* stages[k], k counted from 0 as in the source
stages(k) == plan[k + 1]

count == Len(plan)

-----------------------------------------------------------------------------
(* Buffers.  A pointer is the name of the buffer it addresses; in == out is *)
(* equality of the names.  The contents of a buffer are the input it was    *)
(* derived from and the chain of stage invocations applied to it.           *)

OutPtr == "out"

InPtr(L) == IF L.aliased THEN "out" ELSE "in"

ScratchPtr == "scratch"

\* the caller's u8* temp, handed to every stage as it came
TempPtr == "temp"

Fresh(b) == [base |-> b, ops |-> <<>>]

\* the values the caller passes in `in`
Input == Fresh("x")

\* dft_stage::execute(direction, out, in, temp): the kernel reads the buffer
\* at `in`, writes the buffer at `out`
StageExecuteSwapped(m, k, inv, outp, inp, off) ==
    [m EXCEPT ![inp] = [base |-> m[outp].base,
                        ops  |-> Append(m[outp].ops, [stage |-> k, inv |-> inv, off |-> off])]]

StageExecute(m, k, inv, outp, inp, off) ==
    [m EXCEPT ![outp] = [base |-> m[inp].base,
                         ops  |-> Append(m[inp].ops, [stage |-> k, inv |-> inv, off |-> off])]]

\* builtin_memcpy(scratch, in, sizeof(complex<T>) * size)
MemcpyNothing(m, dst, src) == m

Memcpy(m, dst, src) == [m EXCEPT ![dst] = m[src]]

-----------------------------------------------------------------------------
(* dft_plan::select_in / select_out                                         *)

select_in(stage, out, in, scratch, in_scratch) ==
    IF stage = 0
    THEN (IF in_scratch THEN scratch ELSE in)
    ELSE (IF stages(stage - 1).to_scratch THEN scratch ELSE out)

select_outAlwaysScratch(stage, out, scratch) == scratch

select_out(stage, out, scratch) ==
    IF stages(stage).to_scratch THEN scratch ELSE out

-----------------------------------------------------------------------------
(* The per-call state of execute_dft.  `size_t stack[32]` is an automatic   *)
(* variable: every call has its own array.                                  *)

StackOfShared(c) == 1

StackOf(c) == c

\* size_t stack[32] = { 0 }; stack[i] of the source is element i + 1
ZeroStack == [i \in 1..StackSize |-> 0]

\* the value read from stack[i]; an index outside the array reads an
\* indeterminate value
StackRead(stk, i) ==
    IF i < StackSize THEN { stk[i + 1] } ELSE 0..(MaxRepeats + 1)

\* stack[i] = v; a write outside the array is lost to the model
StackWrite(stk, i, v) ==
    IF i < StackSize THEN [stk EXCEPT ![i + 1] = v] ELSE stk

\* rdepth-- on a size_t
Decrement(n) == IF n = 0 THEN SizeMax ELSE n - 1

\* stack[rdepth] == stages[rdepth]->repeats
ExhaustedLate(cnt, k) == cnt = stages(k).repeats + 1

Exhausted(cnt, k) == cnt = stages(k).repeats

\* rdepth < count - 1 && stages[rdepth + 1]->recursion
DescendNever(k) == FALSE

Descend(k) == k < count - 1 /\ stages(k + 1).recursion

\* offset += stages[rdepth]->out_offset
NextOffsetPerLevel(offset, k, cnt) == (cnt + 1) * stages(k).out_offset

NextOffset(offset, k, cnt) == offset + stages(k).out_offset

\* one entry of the record of stage invocations of a call
Invocation(L, k, outp, inp, off, cnt, run) ==
    [stage |-> k, out |-> outp, in |-> inp, off |-> off, cnt |-> cnt,
     run |-> run, inv |-> L.inverse, temp |-> TempPtr]

\* stages[k]->execute(cbool<inverse>, out + off, in + off, temp)
Invoke(L, k, outp, inp, off, cnt, run) ==
    [L EXCEPT !.mem = StageExecute(@, k, L.inverse, outp, inp, off),
              !.trace = Append(@, Invocation(L, k, outp, inp, off, cnt, run))]

NoRun == [first |-> -1, from |-> 0, to |-> 0]

\* stages.size() == 1 && (stages[0]->can_inplace || in != out)
FastPathNever(L) == FALSE

FastPath(L) == count = 1 /\ (stages(0).can_inplace \/ InPtr(L) # OutPtr)

\* bool in_scratch = !stages[0]->can_inplace && in == out
InScratchWhenAliased(L) == InPtr(L) = OutPtr

InScratch(L) == ~stages(0).can_inplace /\ InPtr(L) = OutPtr

\* depth = maxdepth + 1
ResumePastNext(maxdepth) == maxdepth + 2

Resume(maxdepth) == maxdepth + 1

(* lines 254-270: the fast path, or the set-up of the general path (zeroed *)
(* counters, in_scratch and the copy of the input)                         *)
execute_enter(L, stk) ==
    IF FastPath(L)
    THEN [L   |-> [Invoke(L, 0, OutPtr, InPtr(L), 0, 0, -1)
                     EXCEPT !.pc = "done", !.fast = TRUE],
          stk |-> stk]
    ELSE LET in_scratch == InScratch(L)
         IN  [L   |-> [L EXCEPT !.pc = "for", !.in_scratch = in_scratch, !.depth = 0,
                                !.mem = IF in_scratch
                                        THEN Memcpy(@, ScratchPtr, InPtr(L)) ELSE @],
              stk |-> ZeroStack]

(* lines 272-278 and 301-306: the test of the for loop, then the entry of  *)
(* a recursion run or the single invocation of a plain stage               *)
execute_for(L, stk) ==
    LET depth == L.depth
    IN  IF ~(depth < count)
        THEN [L |-> [L EXCEPT !.pc = "done"], stk |-> stk]
        ELSE IF stages(depth).recursion
        THEN [L |-> [L EXCEPT !.pc = "do", !.offset = 0, !.rdepth = depth,
                              !.maxdepth = depth, !.from = Len(L.trace)],
              stk |-> stk]
        ELSE [L |-> [Invoke(L, depth, select_out(depth, OutPtr, ScratchPtr),
                            select_in(depth, OutPtr, InPtr(L), ScratchPtr, L.in_scratch),
                            0, 0, -1)
                       EXCEPT !.depth = depth + 1],
              stk |-> stk]

(* lines 279-299: one iteration of the do-while loop, with cnt the value   *)
(* read from stack[rdepth], then the loop's test; when the loop ends,      *)
(* depth = maxdepth + 1                                                    *)
execute_do(L, stk, cnt) ==
    LET depth  == L.depth
        rdepth == L.rdepth
        pop    == Exhausted(cnt, rdepth)
        rd     == IF pop THEN Decrement(rdepth)
                  ELSE IF Descend(rdepth) THEN rdepth + 1 ELSE rdepth
        md     == IF pop \/ Descend(rdepth) THEN L.maxdepth ELSE rdepth
        body   == IF pop THEN L
                  ELSE [Invoke(L, rdepth, select_out(rdepth, OutPtr, ScratchPtr),
                               select_in(rdepth, OutPtr, InPtr(L), ScratchPtr, L.in_scratch),
                               L.offset, cnt, depth)
                          EXCEPT !.offset = NextOffset(L.offset, rdepth, cnt)]
        iter   == [body EXCEPT !.rdepth = rd, !.maxdepth = md, !.lastIdx = rdepth]
    IN  [L   |-> IF rd # depth THEN iter
                 ELSE [iter EXCEPT !.pc = "for", !.depth = Resume(md),
                                   !.lastRun = [first |-> depth, from |-> L.from,
                                                to |-> Len(body.trace)]],
         stk |-> StackWrite(stk, rdepth, IF pop THEN 0 ELSE cnt + 1)]

-----------------------------------------------------------------------------
(* The steps of a call                                                      *)

Finished(c) == call[c].pc \in {"done", "ub"}

\* call 2 starts when call 1 has returned, unless the calls are concurrent
Running(c) ==
    /\ ~Finished(c)
    /\ (sched = "conc" \/ c = 1 \/ Finished(1))

Apply(c, r) ==
    /\ call' = [call EXCEPT ![c] = r.L]
    /\ stack' = [stack EXCEPT ![StackOf(c)] = r.stk]
    /\ UNCHANGED <<plan, sched, sp, mul, real, carve>>

Enter(c) ==
    /\ call[c].pc = "call"
    /\ Running(c)
    /\ Apply(c, execute_enter(call[c], stack[StackOf(c)]))

For(c) ==
    /\ call[c].pc = "for"
    /\ Running(c)
    /\ Apply(c, execute_for(call[c], stack[StackOf(c)]))

\* stages[rdepth] read outside the vector is undefined: the call is lost
Do(c) ==
    /\ call[c].pc = "do"
    /\ Running(c)
    /\ IF call[c].rdepth < count
       THEN \E cnt \in StackRead(stack[StackOf(c)], call[c].rdepth) :
                Apply(c, execute_do(call[c], stack[StackOf(c)], cnt))
       ELSE /\ call' = [call EXCEPT ![c].pc = "ub"]
            /\ UNCHANGED <<plan, sched, stack, sp, mul, real, carve>>

Next == \E c \in Calls : Enter(c) \/ For(c) \/ Do(c)

-----------------------------------------------------------------------------
(* The spectral helpers.  A spectrum is a univector of complex numbers with *)
(* integer components; bin k of the source is element k + 1.                *)

Complex(r, i) == [re |-> r, im |-> i]

\* complex<T> operator* and operator+
cmul(a, b) == Complex(a.re * b.re - a.im * b.im, a.re * b.im + a.im * b.re)

cadd(a, b) == Complex(a.re + b.re, a.im + b.im)

\* f0 of fft_multiply: (src1[0].real() * src2[0].real(),
\*                      src1[0].imag() * src2[0].imag())
Bin0ProductComplex(a, b) == cmul(a, b)

Bin0Product(a, b) == Complex(a.re * b.re, a.im * b.im)

\* f0 of fft_multiply_accumulate: (d.real() + src1[0].real() * src2[0].real(),
\*                                 d.imag() + src1[0].imag() * src2[0].imag())
\* with d = dest[0] (two sources) or the first source's bin 0 (three)
Bin0AccumulateNoBase(d, a, b) == Complex(a.re * b.re, a.im * b.im)

Bin0Accumulate(d, a, b) == Complex(d.re + a.re * b.re, d.im + a.im * b.im)

\* if (fmt == dft_pack_format::Perm) dest[0] = f0;
SetBin0(v, fmt, f0) == IF fmt = "Perm" THEN [v EXCEPT ![1] = f0] ELSE v

\* fft_multiply(dest, src1, src2, fmt): f0 is taken first, then
\* dest = src1 * src2 element by element
fft_multiply(m, dest, src1, src2, fmt) ==
    LET f0 == Bin0Product(m[src1][1], m[src2][1])
        v  == [k \in 1..MaxBins |-> cmul(m[src1][k], m[src2][k])]
    IN  [m EXCEPT ![dest] = SetBin0(v, fmt, f0)]

\* fft_multiply_accumulate(dest, src1, src2, fmt): dest = dest + src1 * src2
fft_multiply_accumulate(m, dest, src1, src2, fmt) ==
    LET f0 == Bin0Accumulate(m[dest][1], m[src1][1], m[src2][1])
        v  == [k \in 1..MaxBins |-> cadd(m[dest][k], cmul(m[src1][k], m[src2][k]))]
    IN  [m EXCEPT ![dest] = SetBin0(v, fmt, f0)]

\* fft_multiply_accumulate(dest, src1, src2, src3, fmt): dest = src1 + src2 * src3
fft_multiply_accumulate3(m, dest, src1, src2, src3, fmt) ==
    LET f0 == Bin0Accumulate(m[src1][1], m[src2][1], m[src3][1])
        v  == [k \in 1..MaxBins |-> cadd(m[src1][k], cmul(m[src2][k], m[src3][k]))]
    IN  [m EXCEPT ![dest] = SetBin0(v, fmt, f0)]

NoOp == [op |-> "none", fmt |-> "CCs", dest |-> "W", src |-> <<>>, old |-> <<>>]

Called(op, fmt, dest, src) == [op |-> op, fmt |-> fmt, dest |-> dest, src |-> src, old |-> sp]

\* one call of a helper on the caller's spectra X, Y, Z and W; dest may be
\* a buffer of its own or alias a source
Multiply ==
    /\ mul.op = "none"
    /\ \E fmt \in {"Perm", "CCs"}, dest \in {"W", "X", "Y"} :
           /\ sp' = fft_multiply(sp, dest, "X", "Y", fmt)
           /\ mul' = Called("multiply", fmt, dest, <<"X", "Y">>)
    /\ UNCHANGED <<plan, sched, call, stack, real, carve>>

MultiplyAccumulate ==
    /\ mul.op = "none"
    /\ \E fmt \in {"Perm", "CCs"}, dest \in {"Z", "X"} :
           /\ sp' = fft_multiply_accumulate(sp, dest, "X", "Y", fmt)
           /\ mul' = Called("accumulate", fmt, dest, <<"X", "Y">>)
    /\ UNCHANGED <<plan, sched, call, stack, real, carve>>

MultiplyAccumulate3 ==
    /\ mul.op = "none"
    /\ \E fmt \in {"Perm", "CCs"}, dest \in {"W", "Z", "X"} :
           /\ sp' = fft_multiply_accumulate3(sp, dest, "Z", "X", "Y", fmt)
           /\ mul' = Called("accumulate3", fmt, dest, <<"Z", "X", "Y">>)
    /\ UNCHANGED <<plan, sched, call, stack, real, carve>>

NextMul == Multiply \/ MultiplyAccumulate \/ MultiplyAccumulate3

-----------------------------------------------------------------------------
(* dft_plan_real::execute.  The plan is the inner half-size plan; the       *)
(* packing stage fmt_stage is not one of stages[] and is told from them by  *)
(* its index.  The forward variants take a real `in` and a complex `out`,   *)
(* the inverse variants a complex `in` and a real `out`; each has an        *)
(* overload on raw pointers and one on univectors.                          *)

FmtStage == -1

Variants == {"forward", "inverse"}

Overloads == {"raw", "univector"}

\* the direction tag handed to fmt_stage->execute: cfalse (FALSE) at lines
\* 340, 345 and 354, ctrue (TRUE) at line 361
FmtDirection(variant, overload) == variant = "inverse" /\ overload = "univector"

\* fmt_stage->execute(direction, out, in, nullptr)
FmtExecute(L, inv, outp, inp) ==
    [L EXCEPT !.mem = StageExecute(@, FmtStage, inv, outp, inp, 0),
              !.trace = Append(@, [stage |-> FmtStage, out |-> outp, in |-> inp,
                                   off |-> 0, cnt |-> 0, run |-> -1, inv |-> inv,
                                   temp |-> "nullptr"])]

\* up to the call of execute_dft: the forward variants call
\* execute_dft(cfalse, out, in, temp) at once; the inverse variants run
\* fmt_stage from `in` to outdata and call execute_dft(ctrue, outdata,
\* outdata, temp)
real_enterInnerFromIn(L, variant, overload) ==
    IF variant = "forward"
    THEN [L EXCEPT !.pc = "call", !.inverse = FALSE]
    ELSE [FmtExecute(L, FmtDirection(variant, overload), OutPtr, InPtr(L))
            EXCEPT !.pc = "call", !.inverse = TRUE]

real_enter(L, variant, overload) ==
    IF variant = "forward"
    THEN [L EXCEPT !.pc = "call", !.inverse = FALSE]
    ELSE [FmtExecute(L, FmtDirection(variant, overload), OutPtr, InPtr(L))
            EXCEPT !.pc = "call", !.inverse = TRUE, !.aliased = TRUE]

\* after execute_dft has returned: the forward variants run fmt_stage in
\* place on out, the inverse variants return
real_returnNoFmt(L, variant, overload) == L

real_return(L, variant, overload) ==
    IF variant = "forward"
    THEN FmtExecute(L, FmtDirection(variant, overload), OutPtr, OutPtr)
    ELSE L

Returned(c) == real[c].pc = "returned"

RealEnter(c) ==
    /\ real[c].pc = "start"
    /\ c = 1 \/ Returned(1)
    /\ call' = [call EXCEPT ![c] = real_enter(@, real[c].variant, real[c].overload)]
    /\ real' = [real EXCEPT ![c].pc = "inner"]
    /\ UNCHANGED <<plan, sched, stack, sp, mul, carve>>

RealReturn(c) ==
    /\ real[c].pc = "inner"
    /\ Finished(c)
    /\ call' = [call EXCEPT ![c] = real_return(@, real[c].variant, real[c].overload)]
    /\ real' = [real EXCEPT ![c].pc = "returned"]
    /\ UNCHANGED <<plan, sched, stack, sp, mul, carve>>

NextReal == \E c \in Calls : RealEnter(c) \/ Enter(c) \/ For(c) \/ Do(c) \/ RealReturn(c)

-----------------------------------------------------------------------------
(* The scratch buffer inside temp.  Addresses are byte offsets from the     *)
(* caller's temp pointer.                                                   *)

\* platform<>::native_cache_alignment
CacheAlignment == 64

\* sizeof(complex<T>) for T = float, double
ElemSizes == {8, 16}

align_up(x, a) == ((x + a - 1) \div a) * a

\* align_up(sizeof(complex<T>) * this->size, platform<>::native_cache_alignment)
ScratchBytes(size, elem) == align_up(elem * size, CacheAlignment)

\* scratch = temp + this->temp_size - align_up(...)
ScratchOffsetHead(temp_size, size, elem) == 0

ScratchOffset(temp_size, size, elem) == temp_size - ScratchBytes(size, elem)

\* the plan's temp_size as the initializer leaves it: the largest working
\* area a stage needs, then the aligned room of one complex sequence
RECURSIVE MaxOf(_)
MaxOf(t) == IF t = <<>> THEN 0
            ELSE LET m == MaxOf(Tail(t)) IN IF Head(t) > m THEN Head(t) ELSE m

InitializedTempSize(size, elem, stage_temps) == MaxOf(stage_temps) + ScratchBytes(size, elem)

\* lines 260-262: execute_dft computes the scratch pointer
Carve ==
    /\ carve.pc = "plan"
    /\ carve' = [carve EXCEPT !.pc = "carved",
                              !.scratch = ScratchOffset(carve.temp_size, carve.size, carve.elem)]
    /\ UNCHANGED <<plan, sched, call, stack, sp, mul, real>>

\* stages[k]->execute(..., temp): stage k works in [temp, temp + temp_size of k)
HandTemp ==
    /\ carve.pc = "carved"
    /\ \E k \in DOMAIN carve.stage_temps :
           carve' = [carve EXCEPT !.pc = "handed", !.work = carve.stage_temps[k]]
    /\ UNCHANGED <<plan, sched, call, stack, sp, mul, real>>

NextCarve == Carve \/ HandTemp

-----------------------------------------------------------------------------
(* Initial states                                                           *)

\* the caller's buffers: the input values in `in`, earlier contents in a
\* distinct `out`, and an uninitialised scratch slice of `temp`
NewMem(al) ==
    [out |-> IF al THEN Input ELSE Fresh("old"),
     in |-> Input,
     scratch |-> Fresh("temp")]

NewCall(al, inv) ==
    [pc |-> "call", aliased |-> al, inverse |-> inv, fast |-> FALSE,
     in_scratch |-> FALSE, depth |-> 0, rdepth |-> 0, maxdepth |-> 0,
     offset |-> 0, from |-> 0, mem |-> NewMem(al), trace |-> <<>>,
     lastIdx |-> -1, lastRun |-> NoRun]

\* components of a complex number, and the spectra of MaxBins bins: the two
\* the helpers tell apart are bin 0 and the bins after it, which share a value
Vals == 0..MaxVal

Complexes == { Complex(r, i) : r \in Vals, i \in Vals }

Spectrum(b0, b1) == [k \in 1..MaxBins |-> IF k = 1 THEN b0 ELSE b1]

Spectra == { Spectrum(b0, b1) : b0 \in Complexes, b1 \in Complexes }

FlatSpectra == { Spectrum(b, b) : b \in Complexes }

\* no real-transform call and no carving of temp outside their specifications
NoReal == [c \in Calls |-> [pc |-> "none", variant |-> "none", overload |-> "none", aliased |-> FALSE]]

NoCarve == [pc |-> "none", size |-> 0, elem |-> 0, temp_size |-> 0, stage_temps |-> <<>>,
            scratch |-> 0, work |-> 0]

\* no helper is called in the specifications of execute
NoSpectra == [n \in {"W", "X", "Y", "Z"} |-> Spectrum(Complex(0, 0), Complex(0, 0))]

\* plans whose counters and stage list stay inside their arrays
Plans ==
    UNION { StageLists(n, RoutingStages) \cup StageLists(n, RecursionStages(1..MaxRepeats)) :
              n \in 1..MaxStages }

\* execute(buf, buf, temp) and then execute(out, in, temp), same direction
Init ==
    /\ plan \in Plans
    /\ sched = "seq"
    /\ \E inv \in BOOLEAN : call = [c \in Calls |-> NewCall(c = 1, inv)]
    /\ stack = [c \in Calls |-> ZeroStack]
    /\ sp = NoSpectra
    /\ mul = NoOp
    /\ real = NoReal
    /\ carve = NoCarve

Spec == Init /\ [][Next]_vars

\* one call of execute, aliased or not, in either direction; the other
\* caller stays idle
InitOne ==
    /\ plan \in Plans
    /\ sched = "seq"
    /\ \E al \in BOOLEAN, inv \in BOOLEAN :
          call = [c \in Calls |-> IF c = 1 THEN NewCall(al, inv)
                                  ELSE [NewCall(FALSE, inv) EXCEPT !.pc = "idle"]]
    /\ stack = [c \in Calls |-> ZeroStack]
    /\ sp = NoSpectra
    /\ mul = NoOp
    /\ real = NoReal
    /\ carve = NoCarve

SpecOne == InitOne /\ [][Next]_vars

\* two concurrent calls, each aliased or not, call 1 direct and call 2
\* inverse, on a plan of fewer stages
ConcPlans ==
    UNION { StageLists(n, RoutingStages) \cup StageLists(n, RecursionStages(1..MaxRepeats)) :
              n \in 1..(MaxStages - 1) }

InitConc ==
    /\ plan \in ConcPlans
    /\ sched = "conc"
    /\ \E al \in [Calls -> BOOLEAN] : call = [c \in Calls |-> NewCall(al[c], c = 2)]
    /\ stack = [c \in Calls |-> ZeroStack]
    /\ sp = NoSpectra
    /\ mul = NoOp
    /\ real = NoReal
    /\ carve = NoCarve

SpecConc == InitConc /\ [][Next]_vars

\* stage lists that the fields of dft_stage admit and execute_dft accepts
\* unchecked: recursion stages with repeats = 0 (size_t), and a recursion
\* stage behind StackSize - 1 or StackSize plain stages
PlainStages(n) == [i \in 1..n |-> DefaultStage]

RawPlans ==
    UNION { StageLists(n, RecursionStages(0..1)) : n \in 1..2 }
    \cup { PlainStages(n) \o t : n \in {StackSize - 1, StackSize},
                                t \in StageLists(1, RecursionStages(1..MaxRepeats)) }

InitRaw ==
    /\ plan \in RawPlans
    /\ sched = "seq"
    /\ \E inv \in BOOLEAN : call = [c \in Calls |-> NewCall(c = 1, inv)]
    /\ stack = [c \in Calls |-> ZeroStack]
    /\ sp = NoSpectra
    /\ mul = NoOp
    /\ real = NoReal
    /\ carve = NoCarve

SpecRaw == InitRaw /\ [][Next]_vars

\* the spectra of a caller of the helpers; no execute call is under way
InitMul ==
    /\ sp \in { [W |-> Spectrum(Complex(1, 1), Complex(1, 1)), X |-> x, Y |-> y, Z |-> z] :
                  x \in Spectra, y \in Spectra, z \in FlatSpectra }
    /\ mul = NoOp
    /\ plan = <<DefaultStage>>
    /\ sched = "seq"
    /\ call = [c \in Calls |-> [NewCall(FALSE, FALSE) EXCEPT !.pc = "done"]]
    /\ stack = [c \in Calls |-> ZeroStack]
    /\ real = NoReal
    /\ carve = NoCarve

SpecMul == InitMul /\ [][NextMul]_vars

\* the raw-pointer overload, then the univector overload of the same
\* variant, given the same buffers, on an inner plan of fewer stages
InitReal ==
    /\ plan \in ConcPlans
    /\ sched = "seq"
    /\ \E al \in BOOLEAN :
          call = [c \in Calls |-> [NewCall(al, FALSE) EXCEPT !.pc = "real"]]
    /\ stack = [c \in Calls |-> ZeroStack]
    /\ sp = NoSpectra
    /\ mul = NoOp
    /\ \E v \in Variants :
          real = [c \in Calls |->
                    [pc |-> "start", variant |-> v,
                     overload |-> IF c = 1 THEN "raw" ELSE "univector",
                     aliased |-> call[c].aliased]]
    /\ carve = NoCarve

SpecReal == InitReal /\ [][NextReal]_vars

\* a plan of two stages, of `size` elements of `elem` bytes, as initialized
InitCarve ==
    /\ carve \in { [pc |-> "plan", size |-> n, elem |-> e,
                    temp_size |-> InitializedTempSize(n, e, t), stage_temps |-> t,
                    scratch |-> 0, work |-> 0] :
                     n \in 1..MaxSize, e \in ElemSizes,
                     t \in [1..2 -> 0..MaxStageTemp] }
    /\ plan = <<DefaultStage, DefaultStage>>
    /\ sched = "seq"
    /\ call = [c \in Calls |-> [NewCall(FALSE, FALSE) EXCEPT !.pc = "done"]]
    /\ stack = [c \in Calls |-> ZeroStack]
    /\ sp = NoSpectra
    /\ mul = NoOp
    /\ real = NoReal

SpecCarve == InitCarve /\ [][NextCarve]_vars

\* execute_dft run from L to its return by one caller alone
RECURSIVE RunAlone(_, _)
RunAlone(L, stk) ==
    IF L.pc = "call"
    THEN LET r == execute_enter(L, stk) IN RunAlone(r.L, r.stk)
    ELSE IF L.pc = "for"
    THEN LET r == execute_for(L, stk) IN RunAlone(r.L, r.stk)
    ELSE IF L.pc = "do" /\ L.rdepth < count /\ L.rdepth < StackSize
    THEN LET r == execute_do(L, stk, stk[L.rdepth + 1]) IN RunAlone(r.L, r.stk)
    ELSE L

-----------------------------------------------------------------------------
(* Notions the properties below are stated with                             *)

Done(c) == call[c].pc = "done"

Last(s) == s[Len(s)]

\* the stage indices of entries from+1 .. to of a record of invocations
StagesOf(tr, from, to) == [i \in 1..(to - from) |-> tr[from + i].stage]

RECURSIVE Repeat(_, _)
Repeat(s, n) == IF n = 0 THEN <<>> ELSE s \o Repeat(s, n - 1)

\* the naive depth-first recursion: the stage of `level`, repeats[level]
\* times, each execution followed by the visit of the next level when the
\* next stage is a recursion stage too
RECURSIVE Visit(_)
Visit(level) ==
    Repeat(<<level>> \o (IF level < count - 1 /\ stages(level + 1).recursion
                         THEN Visit(level + 1) ELSE <<>>),
           stages(level).repeats)

\* the same recursion entered at the first stage of a run, which is
\* executed once
VisitRun(first) ==
    <<first>> \o (IF first < count - 1 /\ stages(first + 1).recursion
                  THEN Visit(first + 1) ELSE <<>>)

\* the sum of out_offset over the invocations before entry i that belong to
\* the recursion run `run`
RECURSIVE OffsetBefore(_, _, _)
OffsetBefore(tr, i, run) ==
    IF i <= 1 THEN 0
    ELSE OffsetBefore(tr, i - 1, run)
         + (IF tr[i - 1].run = run THEN stages(tr[i - 1].stage).out_offset ELSE 0)

SomeStageWritesOut == \E k \in 0..(count - 1) : ~stages(k).to_scratch

-----------------------------------------------------------------------------
(* C1 as stated: for every plan, whatever its flags, an aliased call and a  *)
(* call with distinct buffers on the same input, in the same direction,     *)
(* leave the same contents in `out`.                                        *)
C1_InPlaceEquivalence ==
    \A c, d \in Calls :
        (/\ Done(c) /\ Done(d)
         /\ call[c].aliased /\ ~call[d].aliased
         /\ call[c].inverse = call[d].inverse)
        => call[c].mem.out = call[d].mem.out

(* C1 amended: the same, for every plan in which at least one stage has     *)
(* to_scratch = false, so that some stage writes `out`.                     *)
C1_InPlaceEquivalenceSomeStageToOut ==
    SomeStageWritesOut => C1_InPlaceEquivalence

C1_Witness ==
    /\ Done(1) /\ Done(2)
    /\ call[1].aliased /\ ~call[2].aliased
    /\ SomeStageWritesOut
    /\ call[1].in_scratch
    /\ Len(call[1].trace) >= 3
    /\ call[1].mem.out = call[2].mem.out

(* C2: a call with distinct `in` and `out` never writes `in`: every stage   *)
(* invocation writes `out` or the scratch buffer, and `in` keeps the input. *)
C2_InputNotMutated ==
    \A c \in Calls :
        ~call[c].aliased =>
            /\ call[c].mem.in = Input
            /\ \A i \in DOMAIN call[c].trace :
                   call[c].trace[i].out \in {OutPtr, ScratchPtr}

C2_Witness ==
    \E c \in Calls :
        /\ Done(c) /\ ~call[c].aliased /\ ~call[c].fast
        /\ \E i \in DOMAIN call[c].trace : call[c].trace[i].out = ScratchPtr
        /\ \E i \in DOMAIN call[c].trace : call[c].trace[i].run >= 0
        /\ call[c].mem.in = Input

(* C3 as stated: for every plan, the last stage invocation of a call writes *)
(* the caller's `out`.                                                      *)
C3_LastInvocationWritesOut ==
    \A c \in Calls : Done(c) => Last(call[c].trace).out = OutPtr

(* C3 amended: on the fast path always, and on the general path for every   *)
(* plan whose last stage has to_scratch = false, the last invocation of a   *)
(* call is one of the last stage and writes `out`, and `out` then holds the *)
(* output of that invocation.                                               *)
C3_LastInvocationWritesOutUnlessToScratch ==
    \A c \in Calls :
        (Done(c) /\ (call[c].fast \/ ~stages(count - 1).to_scratch)) =>
            LET e == Last(call[c].trace)
            IN  /\ e.out = OutPtr
                /\ e.stage = count - 1
                /\ call[c].mem.out.ops # <<>>
                /\ Last(call[c].mem.out.ops) =
                       [stage |-> e.stage, inv |-> e.inv, off |-> e.off]

C3_Witness ==
    \E c \in Calls :
        /\ Done(c) /\ ~call[c].fast /\ ~stages(count - 1).to_scratch
        /\ count >= 2 /\ stages(count - 2).to_scratch
        /\ Last(call[c].trace).out = OutPtr

(* C4: under every interleaving of the steps of two execute calls on one    *)
(* plan, each with its own buffers, a call never reaches an undefined state *)
(* and returns having issued the same sequence of stage invocations, and    *)
(* with the same contents of its `out`, as the same call run alone.         *)
C4_ConcurrentCallsAsAlone ==
    \A c \in Calls :
        /\ call[c].pc # "ub"
        /\ Done(c) =>
             LET alone == RunAlone(NewCall(call[c].aliased, call[c].inverse), ZeroStack)
             IN  /\ alone.pc = "done"
                 /\ call[c].trace = alone.trace
                 /\ call[c].mem.out = alone.mem.out

C4_Witness ==
    /\ sched = "conc"
    /\ call[1].pc = "do" /\ call[2].pc = "do"
    /\ Len(call[1].trace) >= 2 /\ Len(call[2].trace) >= 2
    /\ call[1].rdepth > call[1].depth /\ call[2].rdepth > call[2].depth

(* C5 as stated: the stage invocations of a recursion run are those of the  *)
(* naive recursion visit(first stage of the run).                           *)
C5_RunIsNaiveVisit ==
    \A c \in Calls :
        call[c].lastRun.first >= 0 =>
            StagesOf(call[c].trace, call[c].lastRun.from, call[c].lastRun.to)
                = Visit(call[c].lastRun.first)

(* C5 amended: the stage invocations of a recursion run are one execution   *)
(* of the first stage of the run, whatever its repeats, followed by the     *)
(* naive recursion visit(second stage) when the run has a second stage.     *)
C5_RunIsFirstStageThenNaiveVisit ==
    \A c \in Calls :
        call[c].lastRun.first >= 0 =>
            StagesOf(call[c].trace, call[c].lastRun.from, call[c].lastRun.to)
                = VisitRun(call[c].lastRun.first)

C5_Witness ==
    \E c \in Calls :
        /\ call[c].lastRun.first >= 0
        /\ call[c].lastRun.first + 2 < count
        /\ stages(call[c].lastRun.first + 2).recursion
        /\ stages(call[c].lastRun.first + 1).repeats >= 2
        /\ stages(call[c].lastRun.first + 2).repeats >= 2
        /\ call[c].lastRun.to - call[c].lastRun.from >= 7

(* C6: whatever the recursion flags, repeats and out_offset of the stages, *)
(* a call never fails (never reaches an undefined state), and inside the    *)
(* do-while loop rdepth stays between depth and the last stage: it is      *)
(* never decremented below depth and never wraps below 0.                   *)
C6_ExecuteNeverFails ==
    \A c \in Calls :
        /\ call[c].pc # "ub"
        /\ call[c].pc = "do" =>
             (call[c].depth <= call[c].rdepth /\ call[c].rdepth < count)

(* C10: in a plan whose recursion runs are at most 32 stages long, every    *)
(* read and write of the counter array uses an index in 0..31, whatever the *)
(* number of stages and wherever the run sits in the stage list.            *)
C10_StackIndexInBounds ==
    \A c \in Calls : call[c].lastIdx < StackSize

(* C9 as stated: inside a recursion run, the invocation made when the       *)
(* level's counter equals c is at offset c * out_offset of that stage.      *)
C9_OffsetIsCounterTimesStride ==
    \A c \in Calls : \A i \in DOMAIN call[c].trace :
        LET e == call[c].trace[i]
        IN  e.run >= 0 => e.off = e.cnt * stages(e.stage).out_offset

(* C9 amended: inside a recursion run, an invocation is at the offset that  *)
(* is the sum of out_offset over every earlier invocation of the same run,  *)
(* of whatever level; the offset starts at 0 with the run and is not reset  *)
(* when a level's counter is.  Every invocation is the latest one of the    *)
(* record in the state that follows it, where it is compared.               *)
C9_OffsetIsRunningSum ==
    \A c \in Calls :
        LET tr == call[c].trace
            n  == Len(tr)
        IN  (n > 0 /\ tr[n].run >= 0) => tr[n].off = OffsetBefore(tr, n, tr[n].run)

C9_Witness ==
    \E c \in Calls : \E i \in DOMAIN call[c].trace :
        LET e == call[c].trace[i]
        IN  /\ e.run >= 0
            /\ e.cnt = 0
            /\ e.off >= 2
            /\ e.off = OffsetBefore(call[c].trace, i, e.run)

-----------------------------------------------------------------------------
(* Spectral products.  The operands of the last helper call as they were    *)
(* before it, and the base the product is added to (none for fft_multiply,  *)
(* dest itself with two sources, the first source with three).              *)

OperandA == IF mul.op = "accumulate3" THEN mul.old[mul.src[2]] ELSE mul.old[mul.src[1]]

OperandB == IF mul.op = "accumulate3" THEN mul.old[mul.src[3]] ELSE mul.old[mul.src[2]]

Base ==
    CASE mul.op = "accumulate"  -> mul.old[mul.dest]
      [] mul.op = "accumulate3" -> mul.old[mul.src[1]]
      [] OTHER                  -> Spectrum(Complex(0, 0), Complex(0, 0))

Componentwise(a, b) == Complex(a.re * b.re, a.im * b.im)

ComplexProduct(a, b) == Complex(a.re * b.re - a.im * b.im, a.re * b.im + a.im * b.re)

Sum(a, b) == Complex(a.re + b.re, a.im + b.im)

TailIsComplexProduct ==
    \A k \in 2..MaxBins :
        sp[mul.dest][k] = Sum(Base[k], ComplexProduct(OperandA[k], OperandB[k]))

Bin0IsComponentwise ==
    sp[mul.dest][1] = Sum(Base[1], Componentwise(OperandA[1], OperandB[1]))

Bin0IsComplexProduct ==
    sp[mul.dest][1] = Sum(Base[1], ComplexProduct(OperandA[1], OperandB[1]))

Bin0ByFormat ==
    /\ mul.fmt = "Perm" => Bin0IsComponentwise
    /\ mul.fmt = "CCs" => Bin0IsComplexProduct
    /\ (mul.fmt = "CCs" /\ OperandA[1].im = 0 /\ OperandB[1].im = 0) => Bin0IsComponentwise

OthersUntouched ==
    \A n \in DOMAIN sp : n # mul.dest => sp[n] = mul.old[n]

Accumulated == mul.op \in {"accumulate", "accumulate3"}

(* C7 as stated: after fft_multiply(dest, a, b, fmt), dest[k] = a[k] * b[k] *)
(* for every k >= 1 and dest[0] = (re a[0] * re b[0], im a[0] * im b[0]),   *)
(* for every pack format, Perm and CCs alike.                               *)
C7_MultiplyBin0Componentwise ==
    mul.op = "multiply" => (TailIsComplexProduct /\ Bin0IsComponentwise)

(* C7 amended: after fft_multiply(dest, a, b, fmt), dest[k] = a[k] * b[k]   *)
(* for every k >= 1; dest[0] is the component-wise product when fmt is Perm *)
(* and the complex product a[0] * b[0] when fmt is CCs, which is the        *)
(* component-wise product when both bins 0 have a zero imaginary part.      *)
C7_MultiplyBin0ComponentwiseForPerm ==
    mul.op = "multiply" => (TailIsComplexProduct /\ Bin0ByFormat)

C7_Witness ==
    /\ mul.op = "multiply"
    /\ mul.fmt = "Perm"
    /\ mul.dest = "X"
    /\ OperandA[1].im * OperandB[1].im > 0
    /\ OperandA[2] # OperandA[1]
    /\ sp["X"][1] = Componentwise(OperandA[1], OperandB[1])
    /\ sp["X"][1] # ComplexProduct(OperandA[1], OperandB[1])

(* C8 as stated: after either fft_multiply_accumulate, dest is the base     *)
(* plus the complex product on every bin k >= 1 and the base plus the       *)
(* component-wise product on bin 0, for every pack format; every element of *)
(* dest is overwritten and no other buffer changes, also when dest aliases  *)
(* a source.                                                                *)
C8_AccumulateBin0Componentwise ==
    Accumulated => (TailIsComplexProduct /\ Bin0IsComponentwise /\ OthersUntouched)

(* C8 amended: after either fft_multiply_accumulate, dest is the base plus  *)
(* the complex product on every bin k >= 1; bin 0 is the base plus the      *)
(* component-wise product when fmt is Perm and the base plus the complex    *)
(* product when fmt is CCs (the same value when both bins 0 have a zero     *)
(* imaginary part); no other buffer changes, also when dest aliases a       *)
(* source.                                                                  *)
C8_AccumulateBin0ComponentwiseForPerm ==
    Accumulated => (TailIsComplexProduct /\ Bin0ByFormat /\ OthersUntouched)

C8_Witness ==
    /\ mul.op = "accumulate3"
    /\ mul.fmt = "Perm"
    /\ mul.dest = "X"
    /\ OperandA[1].im * OperandB[1].im > 0
    /\ Base[1].re + Base[1].im > 0
    /\ sp["X"][1] = Sum(Base[1], Componentwise(OperandA[1], OperandB[1]))
    /\ sp["X"][1] # Sum(Base[1], ComplexProduct(OperandA[1], OperandB[1]))
    /\ sp["Z"] = mul.old["Z"]

-----------------------------------------------------------------------------
(* C11: in every call, aliased or not, on the fast path or the general     *)
(* path, no stage whose can_inplace is false is invoked with its input      *)
(* buffer equal to its output buffer; when in == out and the first stage    *)
(* cannot run in place, the first stage reads the scratch copy and writes   *)
(* a different buffer.                                                      *)
C11_NoAliasingImposed ==
    \A c \in Calls : \A i \in DOMAIN call[c].trace :
        LET e == call[c].trace[i]
        IN  /\ ~stages(e.stage).can_inplace => e.in # e.out
            /\ (e.stage = 0 /\ call[c].aliased /\ ~stages(0).can_inplace) =>
                   (e.in = ScratchPtr /\ e.out # ScratchPtr)

\* the call has entered the general path
General(c) == call[c].pc \notin {"call", "idle"} /\ ~call[c].fast

\* the condition of the copy, from the caller's side
CopyCondition(c) == ~stages(0).can_inplace /\ call[c].aliased

(* C12: on the general path the input is copied into the scratch buffer if *)
(* and only if the first stage has can_inplace == false and in == out; the  *)
(* copy is there before the first stage invocation, every invocation of     *)
(* stage 0 then reads the scratch buffer, and when the condition is false   *)
(* the scratch buffer is left as it was and stage 0 reads the caller's in.  *)
C12_CopyIffFirstStageNotInplaceAndAliased ==
    \A c \in Calls : General(c) =>
        /\ call[c].trace = <<>> =>
             /\ CopyCondition(c) => call[c].mem.scratch = Input
             /\ ~CopyCondition(c) => call[c].mem.scratch = Fresh("temp")
        /\ \A i \in DOMAIN call[c].trace :
             call[c].trace[i].stage = 0 =>
                call[c].trace[i].in = (IF CopyCondition(c) THEN ScratchPtr
                                       ELSE IF call[c].aliased THEN OutPtr ELSE "in")

C12_Witness ==
    \E c \in Calls :
        /\ Done(c)
        /\ General(c)
        /\ CopyCondition(c)
        /\ count >= 2
        /\ call[c].trace[1].stage = 0
        /\ call[c].trace[1].in = ScratchPtr
        /\ call[c].mem.in = Input

(* C13: when the plan has exactly one stage and that stage can run in place *)
(* or in != out, the call makes exactly one stage invocation, with the      *)
(* caller's out, in and temp passed through unchanged, and nothing is       *)
(* copied to or written into the scratch buffer, whatever the stage's       *)
(* to_scratch, recursion and repeats; with one stage that cannot run in     *)
(* place and in == out the general path is taken.                           *)
C13_FastPathDelegates ==
    \A c \in Calls : (count = 1 /\ call[c].pc \notin {"call", "idle"}) =>
        IF stages(0).can_inplace \/ ~call[c].aliased
        THEN /\ Done(c)
             /\ Len(call[c].trace) = 1
             /\ call[c].trace[1].stage = 0
             /\ call[c].trace[1].out = OutPtr
             /\ call[c].trace[1].in = (IF call[c].aliased THEN OutPtr ELSE "in")
             /\ call[c].trace[1].temp = TempPtr
             /\ call[c].trace[1].off = 0
             /\ call[c].mem.scratch = Fresh("temp")
        ELSE /\ call[c].mem.scratch.base = Input.base
             /\ \A i \in DOMAIN call[c].trace : call[c].trace[i].in = ScratchPtr

C13_Witness ==
    \E c \in Calls :
        /\ Done(c)
        /\ count = 1
        /\ stages(0).to_scratch
        /\ stages(0).recursion
        /\ stages(0).repeats >= 2
        /\ ~stages(0).can_inplace
        /\ ~call[c].aliased
        /\ Len(call[c].trace) = 1
        /\ call[c].trace[1].out = OutPtr
        /\ call[c].mem.scratch = Fresh("temp")

\* the stages invoked so far, and the place of the first invocation of k
Invoked(c) == { call[c].trace[i].stage : i \in DOMAIN call[c].trace }

InvocationsOf(c, k) == { i \in DOMAIN call[c].trace : call[c].trace[i].stage = k }

FirstOf(c, k) == CHOOSE i \in InvocationsOf(c, k) : \A j \in InvocationsOf(c, k) : i <= j

(* C14: on the general path every non-recursion stage is invoked exactly    *)
(* once, at offset 0; stages are taken in order (the first invocation of    *)
(* stage i precedes the first invocation of stage j for i < j); every stage *)
(* is invoked at least once; and whenever the outer loop is at its test,    *)
(* also after a recursion run, the stages invoked so far are exactly those  *)
(* before depth: none skipped, none left to be revisited.  The record of    *)
(* invocations only grows, so it is read at the loop's test and at return.  *)
C14_StagesInOrderOncePerCall ==
    \A c \in Calls : (General(c) /\ call[c].pc \in {"for", "done"}) =>
        LET inv == Invoked(c)
        IN  /\ \A k \in inv : ~stages(k).recursion =>
                  /\ Cardinality(InvocationsOf(c, k)) = 1
                  /\ call[c].trace[FirstOf(c, k)].off = 0
            /\ \A k \in inv : (k + 1) \in inv => FirstOf(c, k) < FirstOf(c, k + 1)
            /\ call[c].pc = "for" => inv = 0..(call[c].depth - 1)
            /\ Done(c) => inv = 0..(count - 1)

C14_Witness ==
    \E c \in Calls :
        /\ Done(c)
        /\ General(c)
        /\ count = 3
        /\ stages(0).recursion
        /\ stages(1).recursion
        /\ ~stages(2).recursion
        /\ call[c].lastRun.first = 0
        /\ Cardinality(InvocationsOf(c, 1)) >= 2
        /\ Cardinality(InvocationsOf(c, 2)) = 1
        /\ Last(call[c].trace).stage = 2

\* the first stage of the contiguous run of recursion stages that holds k
RECURSIVE RunStart(_)
RunStart(k) == IF k > 0 /\ stages(k - 1).recursion THEN RunStart(k - 1) ELSE k

\* repeats[a] * ... * repeats[b]
RECURSIVE RepeatsProduct(_, _)
RepeatsProduct(a, b) == IF a > b THEN 1 ELSE stages(b).repeats * RepeatsProduct(a, b - 1)

(* C18: with all repeats >= 1, when a call has returned, the first stage d  *)
(* of every run of recursion stages has been invoked exactly once whatever  *)
(* its repeats, and the stage at level d + i (i >= 1) exactly               *)
(* repeats[d+1] * ... * repeats[d+i] times; once a run has ended, the       *)
(* counter of every level below its first is 0 again.                       *)
C18_InvocationCountsOfARun ==
    \A c \in Calls : General(c) =>
        \A k \in 0..(count - 1) : stages(k).recursion =>
            /\ Done(c) =>
                 Cardinality(InvocationsOf(c, k)) = RepeatsProduct(RunStart(k) + 1, k)
            /\ (call[c].pc \in {"for", "done"} /\ k < call[c].depth /\ k # RunStart(k)) =>
                 stack[c][k + 1] = 0

C18_Witness ==
    \E c \in Calls :
        /\ Done(c)
        /\ General(c)
        /\ count = 3
        /\ \A k \in 0..2 : stages(k).recursion /\ stages(k).repeats >= 2
        /\ Cardinality(InvocationsOf(c, 0)) = 1
        /\ Cardinality(InvocationsOf(c, 1)) = stages(1).repeats
        /\ Cardinality(InvocationsOf(c, 2)) = stages(1).repeats * stages(2).repeats
        /\ stack[c][2] = 0
        /\ stack[c][3] = 0

-----------------------------------------------------------------------------
(* Real transforms.  The invocations of the packing stage in a record, and  *)
(* the caller's `in` pointer of a real call.                                *)

FmtInvocations(c) == InvocationsOf(c, FmtStage)

CallerIn(c) == IF real[c].aliased THEN OutPtr ELSE "in"

(* C15: in the forward real-to-complex execute, both overloads, every stage *)
(* invocation of the inner plan runs in the direct direction and before the *)
(* packing stage; when the call has returned the packing stage has been     *)
(* invoked exactly once, in place on out, as the last invocation, and its   *)
(* conversion is the last write to out.                                     *)
C15_ForwardPacksLast ==
    \A c \in Calls : real[c].variant = "forward" =>
        /\ ~Returned(c) => FmtInvocations(c) = {}
        /\ Returned(c) =>
             /\ FmtInvocations(c) = { Len(call[c].trace) }
             /\ Last(call[c].trace).out = OutPtr
             /\ Last(call[c].trace).in = OutPtr
             /\ Last(call[c].mem.out.ops).stage = FmtStage
             /\ Invoked(c) = (0..(count - 1)) \cup { FmtStage }
        /\ \A i \in DOMAIN call[c].trace :
             call[c].trace[i].stage # FmtStage =>
                (~call[c].trace[i].inv /\ call[c].trace[i].out # "in")

C15_Witness ==
    \E c \in Calls :
        /\ real[c].variant = "forward"
        /\ real[c].overload = "univector"
        /\ Returned(c)
        /\ count >= 2
        /\ stages(count - 1).to_scratch
        /\ Len(call[c].trace) > count
        /\ Last(call[c].trace).stage = FmtStage
        /\ Last(call[c].trace).in = OutPtr

(* C16: in the inverse complex-to-real execute, both overloads, the packing *)
(* stage is invoked first and exactly once, reading the caller's in and     *)
(* writing out; only then the inner plan runs, in the inverse direction and *)
(* in place on out (in == out for the inner call), so no inner stage reads  *)
(* the caller's in, and the caller's in is never written.                   *)
C16_InversePacksFirst ==
    \A c \in Calls : (real[c].variant = "inverse" /\ real[c].pc \in {"inner", "returned"}) =>
        /\ FmtInvocations(c) = { 1 }
        /\ call[c].trace[1].in = CallerIn(c)
        /\ call[c].trace[1].out = OutPtr
        /\ call[c].aliased
        /\ \A i \in DOMAIN call[c].trace : i > 1 =>
             /\ call[c].trace[i].inv
             /\ call[c].trace[i].in \in {OutPtr, ScratchPtr}
             /\ call[c].trace[i].out \in {OutPtr, ScratchPtr}
        /\ ~real[c].aliased => call[c].mem.in = Input
        /\ Returned(c) => Invoked(c) = (0..(count - 1)) \cup { FmtStage }

C16_Witness ==
    \E c \in Calls :
        /\ real[c].variant = "inverse"
        /\ real[c].overload = "raw"
        /\ ~real[c].aliased
        /\ Returned(c)
        /\ count >= 2
        /\ ~stages(0).can_inplace
        /\ call[c].trace[1].stage = FmtStage
        /\ call[c].trace[1].in = "in"
        /\ call[c].trace[2].stage = 0
        /\ call[c].trace[2].inv
        /\ call[c].trace[2].in = ScratchPtr

(* C19: the raw-pointer overload and the univector overload of a variant,   *)
(* given the same buffers, issue the same sequence of stage invocations     *)
(* with the same direction for every invocation, the packing stage's        *)
(* included, for the forward pair and for the inverse pair.                 *)
C19_OverloadsIssueSameInvocations ==
    (Returned(1) /\ Returned(2)) => call[1].trace = call[2].trace

-----------------------------------------------------------------------------
(* C17: the scratch buffer starts at byte offset                            *)
(* temp_size - align_up(size * sizeof(complex), cache_alignment) of temp;   *)
(* its size elements lie entirely inside [temp, temp + temp_size), and the  *)
(* working area [temp, temp + stage.temp_size) handed to a stage does not   *)
(* overlap it.                                                              *)
C17_ScratchIsTailSliceOfTemp ==
    carve.pc \in {"carved", "handed"} =>
        /\ carve.scratch = carve.temp_size - align_up(carve.elem * carve.size, CacheAlignment)
        /\ 0 <= carve.scratch
        /\ carve.scratch + carve.elem * carve.size <= carve.temp_size
        /\ carve.pc = "handed" => carve.work <= carve.scratch

C17_Witness ==
    /\ carve.pc = "handed"
    /\ carve.work > 0
    /\ carve.work = carve.scratch
    /\ carve.elem * carve.size > CacheAlignment
    /\ carve.scratch + carve.elem * carve.size < carve.temp_size

====
